---- MODULE Spec2Model ----
(***************************************************************************)
(* Model of src/src/invoice_service.py: InvoiceService.compute_total and   *)
(* the helpers it calls.                                                   *)
(*                                                                         *)
(* Encoding of Python values                                               *)
(*   float          a record [k, v]: k = "fin" with v the amount in ticks  *)
(*                  (1 monetary unit = Unit ticks), or k = "inf", "ninf",  *)
(*                  "nan" for the IEEE-754 specials float("inf"),          *)
(*                  -float("inf") and NaN.  Finite arithmetic is exact:    *)
(*                  every amount of the model is a whole number of ticks,  *)
(*                  so rounding of the binary representation is not        *)
(*                  modelled.                                              *)
(*   int            an integer; the quantities of the model are small, far *)
(*                  below the range where int * float raises               *)
(*                  OverflowError (an int of 2**1024 or more)              *)
(*   rate           an integer number of percent (0.07 is 7)               *)
(*   Optional[T]    None is <<>>, a present value x is <<x>>               *)
(*   str            identifiers and fixed messages are TLA+ strings; a     *)
(*                  coupon is a sequence of one-character strings, so that *)
(*                  strip() has something to do; a built message (f-string *)
(*                  or join) is the sequence of the pieces concatenated    *)
(*   list           a sequence;  dict  a function on its keys              *)
(***************************************************************************)
EXTENDS Integers, Sequences, FiniteSets, TLC

VARIABLES
    inv,             \* Optional[Invoice]: the argument the caller holds
    SHIPPING_RULES,  \* class attribute InvoiceService.SHIPPING_RULES
    TAX_RATES,       \* class attribute InvoiceService.TAX_RATES
    _coupon_rate,    \* instance attribute self._coupon_rate
    outcome,         \* what the last compute_total call produced
    ran,             \* the sub-computations the last call executed, in order
    calls,           \* number of compute_total calls made on inv
    arg_country,     \* argument of a direct _compute_shipping call
    arg_subtotal,    \* argument of a direct _compute_shipping call
    shipped          \* what the direct _compute_shipping call produced

vars == <<inv, SHIPPING_RULES, TAX_RATES, _coupon_rate, outcome, ran, calls,
          arg_country, arg_subtotal, shipped>>

(***************************************************************************)
(* Bounds of the model.                                                    *)
(***************************************************************************)
MaxItems == 2
MaxCalls == 2
MaxSubtotal == 4001

(***************************************************************************)
(* Python floats.                                                          *)
(***************************************************************************)
Unit == 100 * 100

Fin(n) == [k |-> "fin", v |-> n]
Money(u) == Fin(u * Unit)
PosInf == [k |-> "inf", v |-> 0]
NegInf == [k |-> "ninf", v |-> 0]
NaN == [k |-> "nan", v |-> 0]
Zero == Fin(0)

\* a + b
FAdd(a, b) ==
    IF a.k = "nan" \/ b.k = "nan" THEN NaN
    ELSE IF a.k = "fin" /\ b.k = "fin" THEN Fin(a.v + b.v)
    ELSE IF a.k = "fin" THEN b
    ELSE IF b.k = "fin" THEN a
    ELSE IF a.k = b.k THEN a
    ELSE NaN

\* -a
FNeg(a) ==
    IF a.k = "fin" THEN Fin(0 - a.v)
    ELSE IF a.k = "inf" THEN NegInf
    ELSE IF a.k = "ninf" THEN PosInf
    ELSE NaN

\* a - b
FSub(a, b) == FAdd(a, FNeg(b))

\* a * n for a Python int n
FMulInt(a, n) ==
    IF a.k = "nan" THEN NaN
    ELSE IF a.k = "fin" THEN Fin(a.v * n)
    ELSE IF n = 0 THEN NaN
    ELSE IF n > 0 THEN a
    ELSE FNeg(a)

\* a * r for a positive rate r of pct percent; exact, because every amount
\* a rate is applied to is a whole number of hundredths (100 ticks)
FMulRate(a, pct) ==
    IF a.k = "fin" THEN Fin((a.v \div 100) * pct) ELSE a

\* a < b
FLt(a, b) ==
    IF a.k = "nan" \/ b.k = "nan" THEN FALSE
    ELSE IF a.k = "fin" /\ b.k = "fin" THEN a.v < b.v
    ELSE IF a.k = b.k THEN FALSE
    ELSE a.k = "ninf" \/ b.k = "inf"

\* a > b
FGt(a, b) == FLt(b, a)

\* a <= b
FLe(a, b) ==
    /\ a.k # "nan"
    /\ b.k # "nan"
    /\ ~FLt(b, a)

\* no clamp: the second argument whatever it is
PyMax_unclamped(a, b) == b

\* max(a, b): Python keeps the first argument unless the second is greater
PyMax(a, b) == IF FGt(b, a) THEN b ELSE a

(***************************************************************************)
(* Optional values, dict.get, str.strip and str.join.                      *)
(***************************************************************************)
None == <<>>
Some(x) == <<x>>

\* d.get(key, default)
Get(d, key, default) == IF key \in DOMAIN d THEN d[key] ELSE default

Whitespace == {" ", "\t", "\n"}

RECURSIVE lstrip(_)
lstrip(s) ==
    IF s # <<>> /\ Head(s) \in Whitespace THEN lstrip(Tail(s)) ELSE s

RECURSIVE rstrip(_)
rstrip(s) ==
    IF s # <<>> /\ s[Len(s)] \in Whitespace
    THEN rstrip(SubSeq(s, 1, Len(s) - 1))
    ELSE s

\* s.strip()
strip(s) == rstrip(lstrip(s))

\* sep.join(parts), each part and the result a sequence of pieces
RECURSIVE join(_, _)
join(sep, parts) ==
    IF parts = <<>> THEN <<>>
    ELSE IF Len(parts) = 1 THEN parts[1]
    ELSE parts[1] \o <<sep>> \o join(sep, Tail(parts))

(***************************************************************************)
(* Class and instance attributes of InvoiceService.                        *)
(***************************************************************************)
VALID_CATEGORIES == {"book", "food", "electronics", "other"}

SHIPPING_RULES_0 ==
    [c \in {"TH", "JP", "US", "DEFAULT"} |->
        CASE c = "TH" -> <<<<Money(500), Money(60)>>, <<PosInf, Money(0)>>>>
          [] c = "JP" -> <<<<Money(4000), Money(600)>>, <<PosInf, Money(0)>>>>
          [] c = "US" -> <<<<Money(100), Money(15)>>, <<Money(300), Money(8)>>,
                           <<PosInf, Money(0)>>>>
          [] c = "DEFAULT" -> <<<<Money(200), Money(25)>>, <<PosInf, Money(0)>>>>]

TAX_RATES_0 ==
    [c \in {"TH", "JP", "US"} |->
        CASE c = "TH" -> 7
          [] c = "JP" -> 10
          [] c = "US" -> 8]

DEFAULT_TAX_RATE == 5

FRAGILE_FEE_PER_ITEM == 5

WELCOME10 == <<"W", "E", "L", "C", "O", "M", "E", "1", "0">>
VIP20 == <<"V", "I", "P", "2", "0">>
STUDENT5 == <<"S", "T", "U", "D", "E", "N", "T", "5">>

\* InvoiceService.__init__
coupon_rate_0 ==
    [c \in {WELCOME10, VIP20, STUDENT5} |->
        CASE c = WELCOME10 -> 10
          [] c = VIP20 -> 20
          [] c = STUDENT5 -> 5]

(***************************************************************************)
(* Validation.                                                             *)
(***************************************************************************)
\* the rules of an item checked one at a time, stopping at the first violated
_validate_item_first(it) ==
    IF it.sku = "" THEN <<<<"Item sku is missing">>>>
    ELSE IF it.qty <= 0 THEN <<<<"Invalid qty for ", it.sku>>>>
    ELSE IF FLt(it.unit_price, Zero) THEN <<<<"Invalid price for ", it.sku>>>>
    ELSE IF it.category \notin VALID_CATEGORIES
         THEN <<<<"Unknown category for ", it.sku>>>>
         ELSE <<>>

_validate_item(it) ==
    (IF it.sku = "" THEN <<<<"Item sku is missing">>>> ELSE <<>>)
    \o (IF it.qty <= 0 THEN <<<<"Invalid qty for ", it.sku>>>> ELSE <<>>)
    \o (IF FLt(it.unit_price, Zero)
        THEN <<<<"Invalid price for ", it.sku>>>> ELSE <<>>)
    \o (IF it.category \notin VALID_CATEGORIES
        THEN <<<<"Unknown category for ", it.sku>>>> ELSE <<>>)

\* the loop "for it in inv.items: problems.extend(self._validate_item(it))"
RECURSIVE validate_items(_)
validate_items(items) ==
    IF items = <<>> THEN <<>>
    ELSE _validate_item(Head(items)) \o validate_items(Tail(items))

_validate(i) ==
    IF i = None THEN <<<<"Invoice is missing">>>>
    ELSE
        (IF i[1].invoice_id = "" THEN <<<<"Missing invoice_id">>>> ELSE <<>>)
        \o (IF i[1].customer_id = "" THEN <<<<"Missing customer_id">>>> ELSE <<>>)
        \o (IF i[1].items = <<>>
            THEN <<<<"Invoice must contain items">>>> ELSE <<>>)
        \o validate_items(i[1].items)

(***************************************************************************)
(* The monetary sub-computations.                                          *)
(***************************************************************************)
\* the loop of _compute_subtotal_and_fragile_fee, from the accumulators acc
RECURSIVE subtotal_loop(_, _)
subtotal_loop(items, acc) ==
    IF items = <<>> THEN acc
    ELSE
        LET it == Head(items)
            line_total == FMulInt(it.unit_price, it.qty)
        IN subtotal_loop(Tail(items),
               [subtotal |-> FAdd(acc.subtotal, line_total),
                fragile_fee |->
                    IF it.fragile
                    THEN FAdd(acc.fragile_fee,
                              FMulInt(Money(FRAGILE_FEE_PER_ITEM), it.qty))
                    ELSE acc.fragile_fee])

_compute_subtotal_and_fragile_fee(items) ==
    subtotal_loop(items, [subtotal |-> Zero, fragile_fee |-> Zero])

\* the loop of _compute_shipping over the rest of the rules, then the fallback
RECURSIVE shipping_scan(_, _)
shipping_scan(rules, subtotal) ==
    IF rules = <<>> THEN [cost |-> Zero, fallback |-> TRUE]
    ELSE IF FLt(subtotal, Head(rules)[1])
         THEN [cost |-> Head(rules)[2], fallback |-> FALSE]
         ELSE shipping_scan(Tail(rules), subtotal)

\* _compute_shipping, with whether the trailing "return 0.0" produced the cost
shipping_lookup(country, subtotal) ==
    shipping_scan(Get(SHIPPING_RULES, country, SHIPPING_RULES["DEFAULT"]),
                  subtotal)

_compute_shipping(country, subtotal) == shipping_lookup(country, subtotal).cost

_membership_discount(membership, subtotal) ==
    IF membership = "gold" THEN FMulRate(subtotal, 3)
    ELSE IF membership = "platinum" THEN FMulRate(subtotal, 5)
    ELSE IF FGt(subtotal, Money(3000)) THEN Money(20) ELSE Zero

\* the code looked up as typed, never stripped
_coupon_discount_raw(coupon, subtotal) ==
    IF coupon = None THEN <<Zero, None>>
    ELSE IF coupon[1] = <<>> THEN <<Zero, None>>
    ELSE IF coupon[1] \notin DOMAIN _coupon_rate
         THEN <<Zero, Some("Unknown coupon")>>
         ELSE <<FMulRate(subtotal, _coupon_rate[coupon[1]]), None>>

\* returns <<coupon_discount, coupon_warning>>
_coupon_discount(coupon, subtotal) ==
    IF coupon = None THEN <<Zero, None>>
    ELSE
        LET code == strip(coupon[1])
        IN IF code = <<>> THEN <<Zero, None>>
           ELSE IF code \notin DOMAIN _coupon_rate
                THEN <<Zero, Some("Unknown coupon")>>
                ELSE <<FMulRate(subtotal, _coupon_rate[code]), None>>

\* returns <<discount, coupon_warning>>
_compute_discount(i, subtotal) ==
    LET discount == _membership_discount(i.membership, subtotal)
        cd == _coupon_discount(i.coupon, subtotal)
    IN <<FAdd(discount, cd[1]), cd[2]>>

\* tax on the subtotal, the discount forgotten
_compute_tax_gross(country, taxable_base, discount) ==
    FMulRate(taxable_base, Get(TAX_RATES, country, DEFAULT_TAX_RATE))

_compute_tax(country, taxable_base, discount) ==
    FMulRate(FSub(taxable_base, discount),
             Get(TAX_RATES, country, DEFAULT_TAX_RATE))

\* the advice given from 10000 on, not above it
_membership_warnings_from(membership, subtotal) ==
    IF FLe(Money(10000), subtotal) /\ membership \notin {"gold", "platinum"}
    THEN <<"Consider membership upgrade">>
    ELSE <<>>

_membership_warnings(membership, subtotal) ==
    IF FGt(subtotal, Money(10000)) /\ membership \notin {"gold", "platinum"}
    THEN <<"Consider membership upgrade">>
    ELSE <<>>

(***************************************************************************)
(* compute_total.                                                          *)
(***************************************************************************)
Return(total, warnings) ==
    [kind |-> "return", total |-> Some(total), warnings |-> warnings,
     message |-> <<>>]

Raise(message) ==
    [kind |-> "ValueError", total |-> None, warnings |-> <<>>,
     message |-> message]

NoCall == [kind |-> "none", total |-> None, warnings |-> <<>>, message |-> <<>>]

\* the sum of line 91 before the clamp
unclamped(subtotal, shipping, fragile_fee, tax, discount) ==
    FSub(FAdd(FAdd(FAdd(subtotal, shipping), fragile_fee), tax), discount)

\* lines 84-94 of compute_total, for an invoice i that passed validation:
\* the outcome and the sub-computations run
price_invoice(i) ==
    LET sf == _compute_subtotal_and_fragile_fee(i.items)
        subtotal == sf.subtotal
        fragile_fee == sf.fragile_fee
        shipping == _compute_shipping(i.country, subtotal)
        dw == _compute_discount(i, subtotal)
        discount == dw[1]
        coupon_warning == dw[2]
        warnings == IF coupon_warning # None /\ coupon_warning[1] # ""
                    THEN <<coupon_warning[1]>> ELSE <<>>
        tax == _compute_tax(i.country, subtotal, discount)
        total == PyMax(Zero, unclamped(subtotal, shipping, fragile_fee, tax,
                                       discount))
    IN [outcome |->
            Return(total,
                   warnings \o _membership_warnings(i.membership, subtotal)),
        ran |-> <<"_validate", "_compute_subtotal_and_fragile_fee",
                  "_compute_shipping", "_compute_discount", "_compute_tax",
                  "_membership_warnings">>]

\* a compute_total that checks only that an invoice was passed
compute_total_unchecked(i) ==
    IF i = None
    THEN [outcome |-> Raise(join("; ", _validate(i))), ran |-> <<"_validate">>]
    ELSE price_invoice(i[1])

\* the outcome of compute_total(i) and the sub-computations it ran
compute_total(i) ==
    LET problems == _validate(i)
    IN IF problems # <<>>
       THEN [outcome |-> Raise(join("; ", problems)), ran |-> <<"_validate">>]
       ELSE price_invoice(i[1])

(***************************************************************************)
(* The invoices a caller supplies.                                         *)
(***************************************************************************)
LineItem(sku, category, unit_price, qty, fragile) ==
    [sku |-> sku, category |-> category, unit_price |-> unit_price,
     qty |-> qty, fragile |-> fragile]

Invoice(invoice_id, customer_id, country, membership, coupon, items) ==
    [invoice_id |-> invoice_id, customer_id |-> customer_id,
     country |-> country, membership |-> membership, coupon |-> coupon,
     items |-> items]

\* sequences over S of length 0 .. n
SeqUpTo(S, n) == UNION {[1..m -> S] : m \in 0..n}

\* line items that pass validation, chosen so that subtotals fall on and on
\* either side of the thresholds 100, 500, 3000 and 10000, one whose price is
\* float("inf") and one whose price is NaN (not < 0, so it passes too)
PricedItems ==
    {LineItem("A1", "book", Money(50), 2, FALSE),
     LineItem("B2", "food", Money(0), 1, TRUE),
     LineItem("C3", "electronics", Money(1500), 2, TRUE),
     LineItem("D4", "other", Money(5000), 2, FALSE),
     LineItem("E5", "book", Money(300), 2, FALSE),
     LineItem("F6", "other", PosInf, 1, FALSE),
     LineItem("G7", "food", Money(25), 3, TRUE),
     LineItem("H8", "book", NaN, 1, FALSE)}

\* line items with every combination of violated rules
ProbeItems ==
    {LineItem(s, c, p, q, FALSE) :
        s \in {"", "A1"}, c \in {"book", "toy"},
        p \in {Money(0 - 1), Money(50)}, q \in {0, 1}}

Countries == {"TH", "JP", "US", "FR"}
Memberships == {"gold", "platinum", "none"}
Coupons ==
    {None, Some(<<>>), Some(<<" ", "\t">>), Some(WELCOME10), Some(VIP20),
     Some(STUDENT5), Some(<<" ">> \o VIP20 \o <<"\n">>),
     Some(<<"B", "O", "G", "U", "S">>), Some(<<"v", "i", "p", "2", "0">>)}

PricedInvoices ==
    {Some(Invoice("INV-1", "CUST-1", c, m, k, items)) :
        c \in Countries, m \in Memberships, k \in Coupons,
        items \in SeqUpTo(PricedItems, MaxItems) \ {<<>>}}

ProbeInvoices ==
    {Some(Invoice(id, cu, "US", "none", k, items)) :
        id \in {"", "INV-1"}, cu \in {"", "CUST-1"},
        k \in {None, Some(<<"B", "O", "G", "U", "S">>)},
        items \in SeqUpTo(ProbeItems, MaxItems)}

Invoices == PricedInvoices \cup ProbeInvoices \cup {None}

(***************************************************************************)
(* The state machine: a caller holds one invoice and calls compute_total.  *)
(***************************************************************************)
Tables ==
    /\ SHIPPING_RULES = SHIPPING_RULES_0
    /\ TAX_RATES = TAX_RATES_0
    /\ _coupon_rate = coupon_rate_0

Init ==
    /\ inv \in Invoices
    /\ Tables
    /\ outcome = NoCall
    /\ ran = <<>>
    /\ calls = 0
    /\ arg_country = "US"
    /\ arg_subtotal = Zero
    /\ shipped = None

\* a call that uses up the coupon it applied
ComputeTotal_consuming ==
    /\ calls < MaxCalls
    /\ outcome' = compute_total(inv).outcome
    /\ ran' = compute_total(inv).ran
    /\ calls' = calls + 1
    /\ _coupon_rate' =
           IF inv # None /\ inv[1].coupon # None
           THEN [c \in DOMAIN _coupon_rate \ {strip(inv[1].coupon[1])} |->
                    _coupon_rate[c]]
           ELSE _coupon_rate
    /\ UNCHANGED <<inv, SHIPPING_RULES, TAX_RATES, arg_country, arg_subtotal,
                   shipped>>

\* one call compute_total(inv); nothing but the result is written
ComputeTotal ==
    /\ calls < MaxCalls
    /\ outcome' = compute_total(inv).outcome
    /\ ran' = compute_total(inv).ran
    /\ calls' = calls + 1
    /\ UNCHANGED <<inv, SHIPPING_RULES, TAX_RATES, _coupon_rate,
                   arg_country, arg_subtotal, shipped>>

Next == ComputeTotal

Spec == Init /\ [][Next]_vars

(***************************************************************************)
(* A second state machine: _compute_shipping called on its own, on every   *)
(* country and on every whole subtotal up to MaxSubtotal, float("inf") and *)
(* NaN.                                                                    *)
(***************************************************************************)
ShippingCountries == {"TH", "JP", "US", "FR", "DEFAULT"}

ShippingSubtotals == {Money(u) : u \in 0..MaxSubtotal} \cup {PosInf, NaN}

InitShipping ==
    /\ inv = None
    /\ Tables
    /\ outcome = NoCall
    /\ ran = <<>>
    /\ calls = 0
    /\ arg_country \in ShippingCountries
    /\ arg_subtotal \in ShippingSubtotals
    /\ shipped = None

\* one call _compute_shipping(arg_country, arg_subtotal)
ComputeShipping ==
    /\ shipped = None
    /\ shipped' = Some(shipping_lookup(arg_country, arg_subtotal))
    /\ UNCHANGED <<inv, SHIPPING_RULES, TAX_RATES, _coupon_rate, outcome, ran,
                   calls, arg_country, arg_subtotal>>

NextShipping == ComputeShipping

SpecShipping == InitShipping /\ [][NextShipping]_vars

(***************************************************************************)
(* Vocabulary of the properties, stated without the operators above.       *)
(***************************************************************************)
Called == calls >= 1

\* a valid invoice: the fields as section 3 of the specification wants them
ValidItem(it) ==
    /\ it.sku # ""
    /\ it.qty > 0
    /\ FLe(Zero, it.unit_price)
    /\ it.category \in {"book", "food", "electronics", "other"}

ValidInvoice(i) ==
    /\ i # None
    /\ i[1].invoice_id # ""
    /\ i[1].customer_id # ""
    /\ i[1].items # <<>>
    /\ \A n \in 1..Len(i[1].items) : ValidItem(i[1].items[n])

\* sum of f(items[n]) over n in 1..m
RECURSIVE SumOver(_, _, _)
SumOver(f(_), items, m) ==
    IF m = 0 THEN Zero ELSE FAdd(SumOver(f, items, m - 1), f(items[m]))

LineTotal(it) == FMulInt(it.unit_price, it.qty)
LineFragileFee(it) == IF it.fragile THEN Money(5 * it.qty) ELSE Zero

SubtotalOf(i) == SumOver(LineTotal, i.items, Len(i.items))
FragileFeeOf(i) == SumOver(LineFragileFee, i.items, Len(i.items))

\* s without its leading and trailing whitespace
Trimmed(s) ==
    LET black == {n \in 1..Len(s) : s[n] \notin {" ", "\t", "\n"}}
    IN IF black = {} THEN <<>>
       ELSE SubSeq(s, CHOOSE n \in black : \A m \in black : n <= m,
                      CHOOSE n \in black : \A m \in black : m <= n)

KnownCodes == {WELCOME10, VIP20, STUDENT5}

\* the coupon is absent, empty or whitespace only
BlankCoupon(i) == i.coupon = None \/ Trimmed(i.coupon[1]) = <<>>

\* the coupon is a known code, possibly padded with whitespace
KnownCoupon(i) == i.coupon # None /\ Trimmed(i.coupon[1]) \in KnownCodes

\* the coupon is a non-empty code that is not known
UnknownCoupon(i) == ~BlankCoupon(i) /\ ~KnownCoupon(i)

\* the same invoice with coupon = null
WithoutCoupon(i) == Some([i[1] EXCEPT !.coupon = None])

TotalOf(o) == o.total[1]

(***************************************************************************)
(* C1.  compute_total fails with a validation failure if and only if       *)
(* _validate(invoice) returns a non-empty problem list.  When the list is  *)
(* non-empty no (total, warnings) result is produced and no monetary       *)
(* sub-computation runs; when it is empty a (total, warnings) result is    *)
(* returned, and an unknown country, an unknown coupon or an unrecognized  *)
(* membership tier never causes a failure.                                 *)
(***************************************************************************)
\* no rule of the validator is violated, whatever the country, the
\* membership and the coupon are
NothingToReport(i) ==
    /\ i # None
    /\ i[1].invoice_id # ""
    /\ i[1].customer_id # ""
    /\ i[1].items # <<>>
    /\ \A n \in 1..Len(i[1].items) :
          LET it == i[1].items[n]
          IN /\ it.sku # ""
             /\ ~(it.qty <= 0)
             /\ ~FLt(it.unit_price, Zero)
             /\ it.category \in {"book", "food", "electronics", "other"}

Monetary ==
    {"_compute_subtotal_and_fragile_fee", "_compute_shipping",
     "_compute_discount", "_compute_tax"}

C2_TotalNonNegative ==
    (Called /\ ValidInvoice(inv)) =>
        /\ outcome.kind = "return"
        /\ FLe(Zero, TotalOf(outcome))

\* a valid invoice whose unclamped sum is not a number came back as 0
C2_Witness ==
    /\ Called
    /\ ValidInvoice(inv)
    /\ SubtotalOf(inv[1]) = PosInf
    /\ inv[1].membership = "gold"
    /\ outcome.total = Some(Zero)

(***************************************************************************)
(* C3.  For every valid invoice compute_total returns                      *)
(*   total = max(0, subtotal + shipping + fragileFee + tax - discount)     *)
(* with subtotal the sum of unit_price * qty, fragileFee the sum of 5 * qty*)
(* over fragile items, shipping the country table lookup on subtotal,      *)
(* discount the membership discount (gold 3%, platinum 5%, any other tier  *)
(* flat 20 if subtotal > 3000 else 0) plus the coupon discount (WELCOME10  *)
(* 10%, VIP20 20%, STUDENT5 5%, else 0), and tax = (subtotal - discount) * *)
(* rate with rate TH 0.07, JP 0.10, US 0.08 and 0.05 elsewhere.            *)
(***************************************************************************)
ClaimedDiscount(i, subtotal) ==
    FAdd(CASE i.membership = "gold" -> FMulRate(subtotal, 3)
           [] i.membership = "platinum" -> FMulRate(subtotal, 5)
           [] OTHER -> IF FGt(subtotal, Money(3000)) THEN Money(20) ELSE Zero,
         IF ~KnownCoupon(i) THEN Zero
         ELSE CASE Trimmed(i.coupon[1]) = WELCOME10 -> FMulRate(subtotal, 10)
                [] Trimmed(i.coupon[1]) = VIP20 -> FMulRate(subtotal, 20)
                [] Trimmed(i.coupon[1]) = STUDENT5 -> FMulRate(subtotal, 5))

ClaimedTax(i, subtotal, discount) ==
    FMulRate(FSub(subtotal, discount),
             CASE i.country = "TH" -> 7
               [] i.country = "JP" -> 10
               [] i.country = "US" -> 8
               [] OTHER -> 5)

ClaimedTotal(i) ==
    LET subtotal == SubtotalOf(i)
        discount == ClaimedDiscount(i, subtotal)
    IN PyMax(Zero,
             FSub(FAdd(FAdd(FAdd(subtotal,
                                 _compute_shipping(i.country, subtotal)),
                            FragileFeeOf(i)),
                       ClaimedTax(i, subtotal, discount)),
                  discount))

C3_TotalFormula ==
    (Called /\ ValidInvoice(inv)) =>
        /\ outcome.kind = "return"
        /\ TotalOf(outcome) = ClaimedTotal(inv[1])

\* scenario 3: TH, gold, subtotal 600, total 622.74
C3_Witness ==
    /\ Called
    /\ ValidInvoice(inv)
    /\ inv[1].country = "TH"
    /\ inv[1].membership = "gold"
    /\ BlankCoupon(inv[1])
    /\ SubtotalOf(inv[1]) = Money(600)
    /\ outcome.total = Some(Fin(6227400))

(***************************************************************************)
(* C4.  For every country code and every subtotal >= 0, _compute_shipping  *)
(* returns the cost of the first pair, in table order, of that country's   *)
(* table (the DEFAULT table when the country is not TH, JP or US) whose    *)
(* threshold is strictly greater than subtotal; such a pair always exists, *)
(* so the trailing "return 0.0" fallback is never reached.                 *)
(***************************************************************************)
ClaimedRules(country) ==
    IF country \in {"TH", "JP", "US"}
    THEN SHIPPING_RULES[country]
    ELSE SHIPPING_RULES["DEFAULT"]

\* the result is the cost of the first pair whose threshold exceeds subtotal
FirstPairWins(country, subtotal, result) ==
    LET rules == ClaimedRules(country)
    IN /\ ~result.fallback
       /\ \E n \in 1..Len(rules) :
             /\ FLt(subtotal, rules[n][1])
             /\ \A m \in 1..(n - 1) : ~FLt(subtotal, rules[m][1])
             /\ result.cost = rules[n][2]

C4_FirstPairForEverySubtotal ==
    (shipped # None /\ FLe(Zero, arg_subtotal)) =>
        FirstPairWins(arg_country, arg_subtotal, shipped[1])

\* what does hold: the same for every finite subtotal >= 0
C4_FirstPairForFiniteSubtotal ==
    (shipped # None /\ FLe(Zero, arg_subtotal) /\ arg_subtotal.k = "fin") =>
        FirstPairWins(arg_country, arg_subtotal, shipped[1])

\* where it fails: float("inf") is below no threshold, not even float("inf"),
\* and the fallback produces the cost
C4_FallbackReached ==
    /\ shipped # None
    /\ arg_subtotal = PosInf
    /\ shipped[1] = [cost |-> Zero, fallback |-> TRUE]

\* a subtotal equal to a threshold gets the next tier: US, 100 -> 8
C4_NextTierAtThreshold ==
    /\ shipped # None
    /\ arg_country = "US"
    /\ arg_subtotal = Money(100)
    /\ shipped[1].cost = Money(8)

(***************************************************************************)
(* C5.  For every non-null invoice the problem list of _validate, which    *)
(* compute_total joins into the failure description, is exactly:           *)
(* "Missing invoice_id" if invoice_id is empty, then "Missing customer_id" *)
(* if customer_id is empty, then "Invoice must contain items" if items is  *)
(* empty, then for each item in item order its problems in the order sku   *)
(* missing, invalid qty, invalid price, unknown category.  Every violated  *)
(* rule is reported and no rule that holds is.                             *)
(***************************************************************************)
\* the rules of one item in the order they are reported
ItemRules(it) ==
    <<[bad |-> it.sku = "", msg |-> <<"Item sku is missing">>],
      [bad |-> it.qty <= 0, msg |-> <<"Invalid qty for ", it.sku>>],
      [bad |-> FLt(it.unit_price, Zero), msg |-> <<"Invalid price for ", it.sku>>],
      [bad |-> it.category \notin {"book", "food", "electronics", "other"},
       msg |-> <<"Unknown category for ", it.sku>>]>>

InvoiceRules(i) ==
    <<[bad |-> i.invoice_id = "", msg |-> <<"Missing invoice_id">>],
      [bad |-> i.customer_id = "", msg |-> <<"Missing customer_id">>],
      [bad |-> i.items = <<>>, msg |-> <<"Invoice must contain items">>]>>

\* the rules of items[1..m], in order
RECURSIVE RulesOfItems(_, _)
RulesOfItems(items, m) ==
    IF m = 0 THEN <<>> ELSE RulesOfItems(items, m - 1) \o ItemRules(items[m])

IsBad(r) == r.bad

ClaimedProblems(i) ==
    LET bad == SelectSeq(InvoiceRules(i) \o RulesOfItems(i.items, Len(i.items)),
                         IsBad)
    IN [n \in 1..Len(bad) |-> bad[n].msg]

\* the messages m[1..n] with "; " between them
RECURSIVE Joined(_, _)
Joined(m, n) ==
    IF n = 0 THEN <<>>
    ELSE IF n = 1 THEN m[1]
    ELSE Joined(m, n - 1) \o <<"; ">> \o m[n]

C5_ProblemList ==
    (Called /\ inv # None) =>
        LET claimed == ClaimedProblems(inv[1])
        IN /\ _validate(inv) = claimed
           /\ claimed # <<>> =>
                 /\ outcome.kind = "ValueError"
                 /\ outcome.message = Joined(claimed, Len(claimed))

\* scenario 5: customer_id missing and one item with qty = 0
C5_Witness ==
    /\ Called
    /\ inv # None
    /\ outcome.kind = "ValueError"
    /\ outcome.message =
           <<"Missing customer_id", "; ", "Invalid qty for ", "A1">>

(***************************************************************************)
(* C6.  Coupon round-trip: for every valid invoice with subtotal > 0 and   *)
(* every known coupon code (WELCOME10, VIP20, STUDENT5), the total returned*)
(* by compute_total is strictly smaller than the total returned for the    *)
(* same invoice with coupon = null.                                        *)
(***************************************************************************)
C6_KnownCouponReducesTotal ==
    (/\ Called
     /\ ValidInvoice(inv)
     /\ KnownCoupon(inv[1])
     /\ FGt(SubtotalOf(inv[1]), Zero)) =>
        /\ outcome.kind = "return"
        /\ FLt(TotalOf(outcome), TotalOf(compute_total(WithoutCoupon(inv)).outcome))

\* what does hold: the same for every finite subtotal > 0
C6_KnownCouponReducesFiniteTotal ==
    (/\ Called
     /\ ValidInvoice(inv)
     /\ KnownCoupon(inv[1])
     /\ FGt(SubtotalOf(inv[1]), Zero)
     /\ SubtotalOf(inv[1]).k = "fin") =>
        /\ outcome.kind = "return"
        /\ FLt(TotalOf(outcome), TotalOf(compute_total(WithoutCoupon(inv)).outcome))

\* where it fails: with an infinite subtotal and a percentage membership the
\* sum is inf - inf = NaN with or without the coupon, and both totals are 0
C6_NoReduction ==
    /\ Called
    /\ ValidInvoice(inv)
    /\ KnownCoupon(inv[1])
    /\ SubtotalOf(inv[1]) = PosInf
    /\ outcome.total = Some(Zero)
    /\ compute_total(WithoutCoupon(inv)).outcome.total = Some(Zero)

\* scenario 1 with VIP20: 94.4 instead of 116
C6_Scenario1WithVIP20 ==
    /\ Called
    /\ ValidInvoice(inv)
    /\ inv[1].coupon = Some(VIP20)
    /\ outcome.total = Some(Fin(944000))
    /\ compute_total(WithoutCoupon(inv)).outcome.total = Some(Money(116))

(***************************************************************************)
(* C7.  For every valid invoice whose coupon, trimmed of surrounding       *)
(* whitespace, is non-empty and not one of WELCOME10, VIP20, STUDENT5,     *)
(* compute_total succeeds with the total of the same invoice with coupon = *)
(* null and the warnings contain "Unknown coupon"; a null, empty or        *)
(* whitespace-only coupon yields the same total with no coupon warning.    *)
(***************************************************************************)
Warned(o, w) == \E n \in 1..Len(o.warnings) : o.warnings[n] = w

C7_UnknownCoupon ==
    (Called /\ ValidInvoice(inv) /\ ~KnownCoupon(inv[1])) =>
        /\ outcome.kind = "return"
        /\ outcome.total = compute_total(WithoutCoupon(inv)).outcome.total
        /\ TotalOf(outcome) =
              PyMax(Zero,
                    LET subtotal == SubtotalOf(inv[1])
                        discount ==
                            _membership_discount(inv[1].membership, subtotal)
                    IN unclamped(subtotal,
                                 _compute_shipping(inv[1].country, subtotal),
                                 FragileFeeOf(inv[1]),
                                 _compute_tax(inv[1].country, subtotal, discount),
                                 discount))
        /\ Warned(outcome, "Unknown coupon") <=> UnknownCoupon(inv[1])

\* scenario 2: coupon BOGUS, total 116 and the warning
C7_Witness ==
    /\ Called
    /\ ValidInvoice(inv)
    /\ inv[1].coupon = Some(<<"B", "O", "G", "U", "S">>)
    /\ outcome.total = Some(Money(116))
    /\ outcome.warnings = <<"Unknown coupon">>

(***************************************************************************)
(* C8.  For every valid invoice the warnings returned by compute_total are *)
(* exactly ["Unknown coupon"] if and only if the coupon is an unknown      *)
(* non-empty code, followed by ["Consider membership upgrade"] if and only *)
(* if subtotal > 10000 and membership is neither gold nor platinum: each   *)
(* at most once, the coupon warning first.                                 *)
(***************************************************************************)
C8_Warnings ==
    (Called /\ ValidInvoice(inv)) =>
        /\ outcome.kind = "return"
        /\ outcome.warnings =
              (IF UnknownCoupon(inv[1]) THEN <<"Unknown coupon">> ELSE <<>>)
              \o (IF /\ FGt(SubtotalOf(inv[1]), Money(10000))
                     /\ inv[1].membership # "gold"
                     /\ inv[1].membership # "platinum"
                  THEN <<"Consider membership upgrade">>
                  ELSE <<>>)

\* both warnings, the coupon warning first
C8_Witness ==
    /\ Called
    /\ ValidInvoice(inv)
    /\ SubtotalOf(inv[1]).k = "fin"
    /\ outcome.warnings = <<"Unknown coupon", "Consider membership upgrade">>

(***************************************************************************)
(* C9.  Idempotence: calling compute_total twice in succession on the same *)
(* invoice yields identical outcomes (the same (total, warnings) pair or   *)
(* the same failure description), and a call leaves the invoice, its items *)
(* and the lookup tables unchanged.                                        *)
(***************************************************************************)
C9_Idempotent ==
    [][/\ inv' = inv
       /\ SHIPPING_RULES' = SHIPPING_RULES
       /\ TAX_RATES' = TAX_RATES
       /\ _coupon_rate' = _coupon_rate
       /\ Called => outcome' = outcome]_vars

\* a second call returned on an invoice with a known coupon
C9_Witness ==
    /\ calls = 2
    /\ outcome.kind = "return"
    /\ KnownCoupon(inv[1])

(***************************************************************************)
(* C10.  For every valid invoice the total discount of _compute_discount   *)
(* never exceeds subtotal, hence the taxable base (subtotal - discount)    *)
(* and the tax are never negative and the unclamped sum subtotal +         *)
(* shipping + fragile_fee + tax - discount is already >= 0: the max(0, ...)*)
(* clamp in compute_total never changes the result.                        *)
(***************************************************************************)
ClampIdle(i) ==
    LET sf == _compute_subtotal_and_fragile_fee(i.items)
        discount == _compute_discount(i, sf.subtotal)[1]
        tax == _compute_tax(i.country, sf.subtotal, discount)
        sum == unclamped(sf.subtotal, _compute_shipping(i.country, sf.subtotal),
                         sf.fragile_fee, tax, discount)
    IN /\ FLe(discount, sf.subtotal)
       /\ ~FLt(FSub(sf.subtotal, discount), Zero)
       /\ ~FLt(tax, Zero)
       /\ FLe(Zero, sum)
       /\ outcome.total = Some(sum)

C10_ClampNeverActs ==
    (Called /\ ValidInvoice(inv)) => ClampIdle(inv[1])

\* what does hold: the same for every finite subtotal
C10_ClampNeverActsOnFinite ==
    (Called /\ ValidInvoice(inv) /\ SubtotalOf(inv[1]).k = "fin") =>
        ClampIdle(inv[1])

\* where it fails: the taxable base inf - inf is NaN, so is the sum, and the
\* clamp turns it into 0
C10_ClampActs ==
    /\ Called
    /\ ValidInvoice(inv)
    /\ LET sf == _compute_subtotal_and_fragile_fee(inv[1].items)
           discount == _compute_discount(inv[1], sf.subtotal)[1]
       IN /\ sf.subtotal = PosInf
          /\ discount = PosInf
          /\ _compute_tax(inv[1].country, sf.subtotal, discount) = NaN
    /\ outcome.total = Some(Zero)

\* the largest discount share: platinum with VIP20, a quarter of the subtotal
C10_LargestDiscount ==
    /\ Called
    /\ ValidInvoice(inv)
    /\ inv[1].membership = "platinum"
    /\ inv[1].coupon = Some(VIP20)
    /\ SubtotalOf(inv[1]) = Money(100)
    /\ _compute_discount(inv[1], Money(100))[1] = Money(25)

====
